---- MODULE Spec2Model ----
(***************************************************************************)
(* CGraph (docs/01_Computational_Graphs-Symbolic_Computation.ipynb):       *)
(* expression graphs of Symbol, Constant, Add and Mul nodes, the forward   *)
(* evaluator (postorder, values, value), the reverse-mode propagators      *)
(* (bfs, numeric_gradient, symbolic_gradient) and the rule-based           *)
(* simplifier (simplify and its three rules).                              *)
(*                                                                         *)
(* Python objects live in a heap: `nodes` is the sequence of Node objects  *)
(* (a node's identity is its index) and `lists` the sequence of list       *)
(* objects that hold children.  A node refers to its children list by      *)
(* index, so that two nodes can share one list object, which is what       *)
(* copy.copy produces.                                                     *)
(***************************************************************************)
EXTENDS Integers, Sequences, FiniteSets, TLC

\* ------------------------------------------------------------------ bounds
\* Builders are enabled while the heap holds fewer than MaxNodes nodes.
MaxNodes == 4
\* A call is enabled while the heap holds at most MaxHeap nodes.
MaxHeap == 5
\* An entry of a gradient is differentiated again while the heap holds at
\* most MaxGradientHeap nodes.
MaxGradientHeap == 20
\* The session that exercises the simplifier builds and simplifies while
\* the heap holds fewer than, or at most, MaxSimplifyNodes nodes.
MaxSimplifyNodes == 4
\* Names a caller gives to Symbols, values it gives to Constants, and the
\* numbers it binds Symbols to.
Names == {"x", "y"}
ConstVals == {0, 1}
BindVals == {2, 3}

VARIABLES nodes, lists, last, pre

vars == <<nodes, lists, last, pre>>

\* ------------------------------------------------------------------ heap
\* Node.__init__ (self.children = [None]*nary) with the fields the
\* subclasses add: Symbol.name, Constant.value.
Node(kind, name, val, lid) ==
    [kind |-> kind, name |-> name, value |-> val, children |-> lid]

Heap == [nodes |-> nodes, lists |-> lists]

\* A new object with its own new children list.
Alloc(H, kind, name, val, ch) ==
    [nodes |-> Append(H.nodes, Node(kind, name, val, Len(H.lists) + 1)),
     lists |-> Append(H.lists, ch)]

\* The identity of the object Alloc has just created.
Newest(H) == Len(H.nodes)

\* n.children
Children(H, n) == H.lists[H.nodes[n].children]

\* Key with a Constant that hashes and compares by its value, as a Symbol
\* does by its name.
Key_constant_by_value(H, n) ==
    IF H.nodes[n].kind = "Symbol" THEN <<H.nodes[n].name, 0>>
    ELSE IF H.nodes[n].kind = "Constant" THEN <<"", 0 - 1 - H.nodes[n].value>>
    ELSE <<"", n>>

\* How a dict sees a node as a key.  Symbol.__hash__/__eq__ go by name;
\* every other class inherits object identity.
Key(H, n) ==
    IF H.nodes[n].kind = "Symbol" THEN <<H.nodes[n].name, 0>> ELSE <<"", n>>

\* d[k] = v
Put(d, k, v) == [x \in DOMAIN d \cup {k} |-> IF x = k THEN v ELSE d[x]]

\* dict.get(k, default)
Get(d, k, default) == IF k \in DOMAIN d THEN d[k] ELSE default

EmptyDict == [x \in {} |-> 0]

\* ------------------------------------------------------------------ builders
\* wrap_args leaves operands that are nodes as they are; the operands here
\* are nodes.
\* def sym_add(x, y), reached by x + y through Node.__add__/__radd__
sym_add(H, x, y) == Alloc(H, "Add", "", 0, <<x, y>>)

\* def sym_mul(x, y), reached by x * y through Node.__mul__/__rmul__
sym_mul(H, x, y) == Alloc(H, "Mul", "", 0, <<x, y>>)

\* ------------------------------------------------------------------ evaluator
\* postorder that yields a node before its children (pre-order).
RECURSIVE postorder_node_first(_, _)
postorder_node_first(H, node) ==
    LET ch == Children(H, node)
        RECURSIVE walk(_)
        walk(i) == IF i > Len(ch) THEN <<>>
                   ELSE postorder_node_first(H, ch[i]) \o walk(i + 1)
    IN  <<node>> \o walk(1)

\* def postorder(node): the whole sequence the generator yields on a heap
\* that is not changed while it runs.
RECURSIVE postorder(_, _)
postorder(H, node) ==
    LET ch == Children(H, node)
        RECURSIVE walk(_)
        walk(i) == IF i > Len(ch) THEN <<>> ELSE postorder(H, ch[i]) \o walk(i + 1)
    IN  walk(1) \o <<node>>

\* compute_value with a Symbol that has no entry read as 0.
compute_value_defaulting(H, n, v) ==
    LET kind == H.nodes[n].kind
        ch   == Children(H, n)
    IN  CASE kind = "Symbol" -> [ok |-> TRUE, val |-> Get(v, Key(H, n), 0)]
          [] kind = "Constant" -> [ok |-> TRUE, val |-> H.nodes[n].value]
          [] kind = "Add" ->
               [ok |-> TRUE, val |-> v[Key(H, ch[1])] + v[Key(H, ch[2])]]
          [] kind = "Mul" ->
               [ok |-> TRUE, val |-> v[Key(H, ch[1])] * v[Key(H, ch[2])]]

\* The compute_value lambdas.  A subscript of the values dict with a key it
\* does not hold raises KeyError.
compute_value(H, n, v) ==
    LET kind == H.nodes[n].kind
        ch   == Children(H, n)
        k0   == Key(H, ch[1])
        k1   == Key(H, ch[2])
    IN  CASE kind = "Symbol" ->
               IF Key(H, n) \in DOMAIN v
               THEN [ok |-> TRUE, val |-> v[Key(H, n)]]
               ELSE [ok |-> FALSE, val |-> 0]
          [] kind = "Constant" -> [ok |-> TRUE, val |-> H.nodes[n].value]
          [] kind = "Add" ->
               IF k0 \in DOMAIN v /\ k1 \in DOMAIN v
               THEN [ok |-> TRUE, val |-> v[k0] + v[k1]]
               ELSE [ok |-> FALSE, val |-> 0]
          [] kind = "Mul" ->
               IF k0 \in DOMAIN v /\ k1 \in DOMAIN v
               THEN [ok |-> TRUE, val |-> v[k0] * v[k1]]
               ELSE [ok |-> FALSE, val |-> 0]

RECURSIVE values_loop(_, _, _, _)
RECURSIVE values_store(_, _, _, _, _)

\* The loop of values without `if not n in v`.
values_loop_recomputing(H, po, i, st) ==
    IF i > Len(po) THEN st
    ELSE values_store(H, po, i, st, compute_value(H, po[i], st.v))

\* for n in postorder(f): if not n in v: v[n] = n.compute_value(v), from
\* entry i on of the sequence po that postorder yields.  st holds the dict v
\* and `computed`, the nodes compute_value has been called for.
values_loop(H, po, i, st) ==
    IF i > Len(po) THEN st
    ELSE IF Key(H, po[i]) \in DOMAIN st.v THEN values_loop(H, po, i + 1, st)
    ELSE values_store(H, po, i, st, compute_value(H, po[i], st.v))

\* v[n] = r for the outcome r of n.compute_value(v), and on with the loop;
\* a KeyError leaves the function.
values_store(H, po, i, st, r) ==
    IF r.ok
    THEN values_loop(H, po, i + 1,
                     [ok |-> TRUE, v |-> Put(st.v, Key(H, po[i]), r.val),
                      computed |-> Append(st.computed, po[i])])
    ELSE [ok |-> FALSE, v |-> EmptyDict, computed |-> st.computed]

\* values with `v = fargs` in place of `v = {}; v.update(fargs)`: the dict
\* of the caller is the one that is filled.
values_return_aliasing(st, po, fargs) ==
    [ok |-> st.ok, v |-> st.v, computed |-> st.computed, visited |-> po,
     fargs |-> st.v]

\* What values leaves behind: the dict v it returns (nothing when ok is
\* FALSE), the nodes postorder yielded and those compute_value was called
\* for, and the dict of the caller, which `v = {}; v.update(fargs)` only
\* reads.
values_return(st, po, fargs) ==
    [ok |-> st.ok, v |-> st.v, computed |-> st.computed, visited |-> po,
     fargs |-> fargs]

\* The body of values for the sequence po that postorder(f) yields:
\* v = {}; v.update(fargs), the loop, return v.
values_over(H, po, fargs) ==
    values_return(values_loop(H, po, 1,
                              [ok |-> TRUE, v |-> fargs, computed |-> <<>>]),
                  po, fargs)

\* def values(f, fargs).  ok = FALSE stands for the KeyError that leaves the
\* function; nothing is returned then.
values(H, f, fargs) == values_over(H, postorder(H, f), fargs)

\* values(f, fargs)[f] for the outcome r of values(f, fargs): the subscript
\* raises KeyError when the dict has no entry for f.
values_subscript(H, f, r) ==
    IF r.ok /\ Key(H, f) \in DOMAIN r.v
    THEN [ok |-> TRUE, val |-> r.v[Key(H, f)]]
    ELSE [ok |-> FALSE, val |-> 0]

\* def value(f, fargs): values(f, fargs)[f]
value(H, f, fargs) == values_subscript(H, f, values(H, f, fargs))

\* ------------------------------------------------------------------ gradient propagator
\* def bfs(node, node_data): q = [(node, node_data)]
bfs_start(node, node_data) == <<<<node, node_data>>>>

\* `while q` that stops with one pair left in the queue.
bfs_running_off_by_one(q) == Len(q) > 1

\* bfs: `while q`, the loop goes on while the queue holds a pair.
bfs_running(q) == q # <<>>

\* bfs that does not queue a child again while the queue holds a pair for it.
bfs_send_unless_queued(H, q, t, node_data) ==
    LET RECURSIVE add(_, _)
        add(qq, idx) ==
            IF idx > Len(Children(H, t[1])) THEN qq
            ELSE IF \E j \in 1..Len(qq) : qq[j][1] = Children(H, t[1])[idx]
                 THEN add(qq, idx + 1)
                 ELSE add(Append(qq, <<Children(H, t[1])[idx], node_data[idx]>>), idx + 1)
    IN  add(q, 1)

\* bfs after `node_data = yield t`: one (child, node_data[idx]) pair is
\* appended per child of t[0], in child order.
bfs_send(H, q, t, node_data) ==
    q \o [idx \in 1..Len(Children(H, t[1])) |->
             <<Children(H, t[1])[idx], node_data[idx]>>]

\* compute_gradient with the two entries of Mul not swapped.
compute_gradient_unswapped(H, n, vals) ==
    LET kind == H.nodes[n].kind
        ch   == Children(H, n)
    IN  CASE kind = "Add" -> <<1, 1>>
          [] kind = "Mul" -> <<vals[Key(H, ch[1])], vals[Key(H, ch[2])]>>
          [] OTHER -> <<>>

\* The compute_gradient lambdas
compute_gradient(H, n, vals) ==
    LET kind == H.nodes[n].kind
        ch   == Children(H, n)
    IN  CASE kind = "Add" -> <<1, 1>>
          [] kind = "Mul" -> <<vals[Key(H, ch[2])], vals[Key(H, ch[1])]>>
          [] OTHER -> <<>>

\* The body of numeric_gradient's loop with `derivatives[n] = in_grad` in
\* place of `+=`.
numeric_gradient_body_overwriting(H, vals, t, rest, derivatives) ==
    LET sent == [i \in 1..Len(compute_gradient(H, t[1], vals)) |->
                    compute_gradient(H, t[1], vals)[i] * t[2]]
    IN  [q |-> bfs_send(H, rest, t, sent),
         derivatives |-> Put(derivatives, Key(H, t[1]), t[2])]

\* One pass of the loop of numeric_gradient, for the pair t = (n, in_grad)
\* that bfs has taken from its queue, `rest` being what the queue holds then:
\* derivatives[n] += in_grad on a defaultdict(int), where a key that is read
\* before it is written reads as 0; then the local gradients times in_grad
\* are sent to bfs, which appends one pair per child.
numeric_gradient_body(H, vals, t, rest, derivatives) ==
    LET local_grad == compute_gradient(H, t[1], vals)
        sent == [i \in 1..Len(local_grad) |-> local_grad[i] * t[2]]
    IN  [q |-> bfs_send(H, rest, t, sent),
         derivatives |-> Put(derivatives, Key(H, t[1]),
                             Get(derivatives, Key(H, t[1]), 0) + t[2])]

\* def numeric_gradient(f, fargs): the loop runs until the queue of bfs is
\* empty; bfs takes the pairs from the front, q.pop(0).
numeric_gradient(H, f, fargs) ==
    LET vals == values(H, f, fargs)
        RECURSIVE loop(_)
        loop(fr) ==
            IF ~bfs_running(fr.q) THEN fr.derivatives
            ELSE loop(numeric_gradient_body(H, vals.v, Head(fr.q), Tail(fr.q),
                                            fr.derivatives))
    IN  IF vals.ok
        THEN [ok |-> TRUE, fargs |-> vals.fargs,
              v |-> loop([q |-> bfs_start(f, 1), derivatives |-> EmptyDict])]
        ELSE [ok |-> FALSE, fargs |-> vals.fargs, v |-> EmptyDict]

\* The symbolic_gradient lambdas with the two entries of Mul not swapped.
node_symbolic_gradient_unswapped(H, n) ==
    LET kind == H.nodes[n].kind
        ch   == Children(H, n)
        H1   == Alloc(H, "Constant", "", 1, <<>>)
        H2   == Alloc(H1, "Constant", "", 1, <<>>)
    IN  CASE kind = "Add" -> [heap |-> H2, grads |-> <<Newest(H1), Newest(H2)>>]
          [] kind = "Mul" -> [heap |-> H, grads |-> <<ch[1], ch[2]>>]
          [] OTHER -> [heap |-> H, grads |-> <<>>]

\* The symbolic_gradient lambdas of the node classes.  Add builds two new
\* Constant(1) objects; Mul hands out its own children, swapped.
node_symbolic_gradient(H, n) ==
    LET kind == H.nodes[n].kind
        ch   == Children(H, n)
        H1   == Alloc(H, "Constant", "", 1, <<>>)
        H2   == Alloc(H1, "Constant", "", 1, <<>>)
    IN  CASE kind = "Add" -> [heap |-> H2, grads |-> <<Newest(H1), Newest(H2)>>]
          [] kind = "Mul" -> [heap |-> H, grads |-> <<ch[2], ch[1]>>]
          [] OTHER -> [heap |-> H, grads |-> <<>>]

\* The local gradients sent on without the factor in_grad.
times_in_grad_dropped(H, local_grad, in_grad, i) ==
    [heap |-> H, sent |-> local_grad]

\* [l * in_grad for l in local_grad]: one new Mul node per entry, in order.
RECURSIVE times_in_grad(_, _, _, _)
times_in_grad(H, local_grad, in_grad, i) ==
    IF i > Len(local_grad) THEN [heap |-> H, sent |-> <<>>]
    ELSE LET H1   == sym_mul(H, local_grad[i], in_grad)
             rest == times_in_grad(H1, local_grad, in_grad, i + 1)
         IN  [heap |-> rest.heap, sent |-> <<Newest(H1)>> \o rest.sent]

\* derivatives[n] = derivatives[n] + in_grad, cur being the node that
\* derivatives[n] read on heap G1: a new Add node is stored under key k.
accumulate(G1, derivatives, k, cur, in_grad) ==
    [heap |-> sym_add(G1, cur, in_grad),
     derivatives |-> Put(derivatives, k, Len(G1.nodes) + 1)]

\* gen.send([l * in_grad for l in local_grad]), mul being the heap and the
\* products: bfs appends one pair per child of t[0].
send_products(mul, derivatives, t, rest) ==
    [heap |-> mul.heap,
     q |-> bfs_send(mul.heap, rest, t, mul.sent),
     derivatives |-> derivatives]

\* The element of a set of one element; {F(v) : v \in {e}} computes e once
\* however often F uses v.
Only(S) == CHOOSE r \in S : TRUE

\* local_grad = n.symbolic_gradient() and its products with in_grad, acc
\* being the heap and the dict that the accumulation left.
propagate(acc, lg, t, rest) ==
    Only({send_products(mul, acc.derivatives, t, rest) :
             mul \in {times_in_grad(lg.heap, lg.grads, t[2], 1)}})

\* The loop body of symbolic_gradient after the accumulation.
after_accumulate(acc, t, rest) ==
    Only({propagate(acc, lg, t, rest) : lg \in {node_symbolic_gradient(acc.heap, t[1])}})

\* One pass of the loop of symbolic_gradient for the pair t = (n, in_grad).
\* derivatives is a defaultdict whose factory builds a new Constant(0);
\* reading a missing key stores that object.
symbolic_gradient_body(G, t, rest, derivatives) ==
    Only({after_accumulate(acc, t, rest) :
             acc \in {IF Key(G, t[1]) \in DOMAIN derivatives
                      THEN accumulate(G, derivatives, Key(G, t[1]),
                                      derivatives[Key(G, t[1])], t[2])
                      ELSE accumulate(Alloc(G, "Constant", "", 0, <<>>), derivatives,
                                      Key(G, t[1]), Len(G.nodes) + 1, t[2])}})

\* The state of symbolic_gradient when bfs has been created: the seed
\* Constant(1) is built and queued with f.
symbolic_gradient_start(H, f) ==
    [heap |-> Alloc(H, "Constant", "", 1, <<>>),
     q |-> bfs_start(f, Len(H.nodes) + 1),
     derivatives |-> EmptyDict]

\* def symbolic_gradient(f)
symbolic_gradient(H, f) ==
    LET RECURSIVE loop(_)
        loop(fr) ==
            IF ~bfs_running(fr.q) THEN [heap |-> fr.heap, v |-> fr.derivatives]
            ELSE loop(symbolic_gradient_body(fr.heap, Head(fr.q), Tail(fr.q),
                                             fr.derivatives))
    IN  loop(symbolic_gradient_start(H, f))

\* d[k] on the defaultdict that symbolic_gradient returned, d being the
\* dict and H the heap: a key that is missing gets a new Constant(0).
derivative_entry(H, d, k) ==
    IF k \in DOMAIN d THEN [heap |-> H, node |-> d[k]]
    ELSE [heap |-> Alloc(H, "Constant", "", 0, <<>>), node |-> Len(H.nodes) + 1]

\* ------------------------------------------------------------------ simplifier
\* def is_const(node, value=None), for a value that is given
is_const(H, node, val) ==
    /\ H.nodes[node].kind = "Constant"
    /\ H.nodes[node].value = val

\* def applies_to(*klasses): the decorated rule is run on nodes of the
\* class, every other node is returned as it is.
applies_to(H, klass, node, result) ==
    IF H.nodes[node].kind = klass THEN result ELSE node

\* mul_identity_rule that looks at the right operand only.
mul_identity_rule_right_only(H, node) ==
    LET ch == Children(H, node)
    IN  applies_to(H, "Mul", node,
            IF is_const(H, ch[2], 1) THEN ch[1] ELSE node)

\* def mul_identity_rule(node), decorated with @applies_to(Mul)
mul_identity_rule(H, node) ==
    LET ch == Children(H, node)
    IN  applies_to(H, "Mul", node,
            IF is_const(H, ch[1], 1) THEN ch[2]
            ELSE IF is_const(H, ch[2], 1) THEN ch[1]
            ELSE node)

\* add_identity_rule that tests for the constant 1, as the Mul rule does.
add_identity_rule_one(H, node) ==
    LET ch == Children(H, node)
    IN  applies_to(H, "Add", node,
            IF is_const(H, ch[1], 1) THEN ch[2]
            ELSE IF is_const(H, ch[2], 1) THEN ch[1]
            ELSE node)

\* def add_identity_rule(node), decorated with @applies_to(Add)
add_identity_rule(H, node) ==
    LET ch == Children(H, node)
    IN  applies_to(H, "Add", node,
            IF is_const(H, ch[1], 0) THEN ch[2]
            ELSE IF is_const(H, ch[2], 0) THEN ch[1]
            ELSE node)

\* A heap together with the object built last in it.
Built(H) == [heap |-> H, node |-> Newest(H)]

\* The two exits of eval_to_const_rule, k being the outcome of value(node, {}):
\* return Constant(k), or return node from the except clause.
const_or_node(H, node, k) ==
    IF k.ok THEN Built(Alloc(H, "Constant", "", k.val, <<>>))
    ELSE [heap |-> H, node |-> node]

\* eval_to_const_rule that folds Add nodes only.
eval_to_const_rule_add_only(H, node) ==
    IF H.nodes[node].kind = "Mul" THEN [heap |-> H, node |-> node]
    ELSE const_or_node(H, node, value(H, node, EmptyDict))

\* def eval_to_const_rule(node): value(node, {}) and a new Constant, or the
\* node itself when the KeyError of an unbound Symbol is caught.
eval_to_const_rule(H, node) == const_or_node(H, node, value(H, node, EmptyDict))

\* rules without the cell that appends eval_to_const_rule.
rules_without_folding == <<"mul_identity_rule", "add_identity_rule">>

\* rules with constant folding registered first.
rules_folding_first == <<"eval_to_const_rule", "mul_identity_rule", "add_identity_rule">>

\* The list `rules` after the three cells that fill it have run.
rules == <<"mul_identity_rule", "add_identity_rule", "eval_to_const_rule">>

\* r(nc) for one entry r of rules
apply_rule(r, H, nc) ==
    CASE r = "mul_identity_rule" -> [heap |-> H, node |-> mul_identity_rule(H, nc)]
      [] r = "add_identity_rule" -> [heap |-> H, node |-> add_identity_rule(H, nc)]
      [] r = "eval_to_const_rule" -> eval_to_const_rule(H, nc)

\* for r in rules: nc = r(nc), from entry i of rules on; cur holds the heap
\* and nc.
RECURSIVE apply_rules(_, _)
apply_rules(cur, i) ==
    IF i > Len(rules) THEN cur
    ELSE apply_rules(apply_rule(rules[i], cur.heap, cur.node), i + 1)

\* copy.copy(n): a new object with the attributes of n; the children
\* attribute of the copy is the very list object of n.
copy(H, n) == [H EXCEPT !.nodes = Append(@, H.nodes[n])]

\* for i in range(len(nc.children)): nc.children[i] = nodemap.get(c, c),
\* nc being the object built last in H.
replace_children(H, nodemap) ==
    [H EXCEPT !.lists[H.nodes[Newest(H)].children] =
        [i \in 1..Len(@) |-> Get(nodemap, Key(H, @[i]), @[i])]]

\* The nodes that `for r in rules: nc = r(nc)` assigns to nc, one per rule,
\* from entry i of rules on.
RECURSIVE rule_results(_, _)
rule_results(cur, i) ==
    IF i > Len(rules) THEN <<>>
    ELSE <<apply_rule(rules[i], cur.heap, cur.node).node>>
         \o rule_results(apply_rule(rules[i], cur.heap, cur.node), i + 1)

\* One pass of the loop body as it is seen from outside: the node n that
\* postorder yielded, its copy nc with the children the copy was given, and
\* the nodes the rules returned in turn.
Visit(n, start) ==
    [n |-> n, nc |-> start.node, kids |-> Children(start.heap, start.node),
     after |-> rule_results(start, 1)]

\* nodemap[n] = nc, k being the key of n and r the heap and nc the rules
\* have left.  `log` lists the passes of the loop body so far.
record(st, k, r, v) ==
    [heap |-> r.heap, nodemap |-> Put(st.nodemap, k, r.node), log |-> Append(st.log, v)]

\* The loop body from `for r in rules` on, start being the heap and the
\* copy nc with its children replaced.
rewrite(st, n, start) ==
    record(st, Key(st.heap, n), apply_rules(start, 1), Visit(n, start))

\* The body of the loop of simplify for one node n that postorder yields.
\* st holds the heap and nodemap.
simplify_body(st, n) ==
    IF st.heap.nodes[n].kind = "Symbol" THEN st
    ELSE rewrite(st, n, Built(replace_children(copy(st.heap, n), st.nodemap)))

\* for n in postorder(node): <body>.  The generator is lazy: it reads
\* entry i of node.children when it gets there, after the loop body has run
\* for everything it yielded before.
RECURSIVE simplify_walk(_, _)
simplify_walk(st, node) ==
    LET lid == st.heap.nodes[node].children
        RECURSIVE kids(_, _)
        kids(s, i) ==
            IF i > Len(s.heap.lists[lid]) THEN s
            ELSE kids(simplify_walk(s, s.heap.lists[lid][i]), i + 1)
    IN  simplify_body(kids(st, 1), node)

\* return nodemap[node], k being the key of node and st what the loop left.
lookup(st, k) ==
    IF k \in DOMAIN st.nodemap
    THEN [ok |-> TRUE, heap |-> st.heap, node |-> st.nodemap[k], log |-> st.log]
    ELSE [ok |-> FALSE, heap |-> st.heap, node |-> 0, log |-> st.log]

\* def simplify(node).  ok = FALSE stands for the KeyError of
\* nodemap[node]; `heap` is the heap the call leaves behind either way.
simplify(H, node) ==
    lookup(simplify_walk([heap |-> H, nodemap |-> EmptyDict, log |-> <<>>], node),
           Key(H, node))

\* ------------------------------------------------------------------ state machine
NoCall == [op |-> "none"]

NoHeap == [nodes |-> <<>>, lists |-> <<>>]

\* The session starts with x = Symbol('x') and y = Symbol('y').
Init ==
    /\ nodes = <<Node("Symbol", "x", 0, 1), Node("Symbol", "y", 0, 2)>>
    /\ lists = <<<<>>, <<>>>>
    /\ last = NoCall
    /\ pre = NoHeap

Install(H) ==
    /\ nodes' = H.nodes
    /\ lists' = H.lists

\* `last` and `pre` record the most recent call, what it returned and the
\* heap it started from; the record is dropped when the caller goes on.
Forget ==
    /\ last' = NoCall
    /\ pre' = NoHeap

\* A call is made when the previous one has returned and its result has
\* been taken, and while the heap is within the bound.
CanCall ==
    /\ last.op = "none"
    /\ Len(nodes) <= MaxHeap

\* A gradient call is in its loop; the caller goes on when it has returned.
InCall == last.op \in {"numeric_traversal", "symbolic_traversal"}

\* The caller is done with the result of the last call.
Return ==
    /\ last.op # "none"
    /\ Forget
    /\ UNCHANGED <<nodes, lists>>

\* x = Symbol(name)
NewSymbol ==
    /\ ~InCall
    /\ Len(nodes) < MaxNodes
    /\ \E name \in Names : Install(Alloc(Heap, "Symbol", name, 0, <<>>))
    /\ Forget

\* Constant(value)
NewConstant ==
    /\ ~InCall
    /\ Len(nodes) < MaxNodes
    /\ \E val \in ConstVals : Install(Alloc(Heap, "Constant", "", val, <<>>))
    /\ Forget

CallSymAdd ==
    /\ ~InCall
    /\ Len(nodes) < MaxNodes
    /\ \E x \in 1..Len(nodes), y \in 1..Len(nodes) : Install(sym_add(Heap, x, y))
    /\ Forget

CallSymMul ==
    /\ ~InCall
    /\ Len(nodes) < MaxNodes
    /\ \E x \in 1..Len(nodes), y \in 1..Len(nodes) : Install(sym_mul(Heap, x, y))
    /\ Forget

\* The bindings a caller may pass: a dict from Symbols to numbers, which
\* may leave Symbols out.
SymKeys == {<<name, 0>> : name \in Names}

Bindings == UNION {[S -> BindVals] : S \in SUBSET SymKeys}

\* values(f, fargs)
CallValues ==
    /\ CanCall
    /\ \E f \in 1..Len(nodes), fargs \in Bindings :
          LET r == values(Heap, f, fargs)
          IN  last' = [op |-> "values", f |-> f, fargs |-> fargs,
                       ok |-> r.ok, out |-> r.v]
    /\ pre' = Heap
    /\ UNCHANGED <<nodes, lists>>

\* value(f, fargs)
CallValue ==
    /\ CanCall
    /\ \E f \in 1..Len(nodes), fargs \in Bindings :
          LET r == value(Heap, f, fargs)
          IN  last' = [op |-> "value", f |-> f, fargs |-> fargs,
                       ok |-> r.ok, out |-> r.val]
    /\ pre' = Heap
    /\ UNCHANGED <<nodes, lists>>

\* numeric_gradient(f, fargs)
CallNumericGradient ==
    /\ CanCall
    /\ \E f \in 1..Len(nodes), fargs \in Bindings :
          LET r == numeric_gradient(Heap, f, fargs)
          IN  last' = [op |-> "numeric_gradient", f |-> f, fargs |-> fargs,
                       ok |-> r.ok, out |-> r.v]
    /\ pre' = Heap
    /\ UNCHANGED <<nodes, lists>>

\* values(f, fargs), seen with what the call does besides returning: the
\* nodes postorder yields, those compute_value is called for, and the dict
\* of the caller as the call leaves it.
TracedValues ==
    /\ CanCall
    /\ \E f \in 1..Len(nodes), fargs \in Bindings :
          LET r == values(Heap, f, fargs)
          IN  last' = [op |-> "values", f |-> f, fargs |-> fargs,
                       ok |-> r.ok, out |-> r.v, visited |-> r.visited,
                       computed |-> r.computed, fargs_after |-> r.fargs]
    /\ pre' = Heap
    /\ UNCHANGED <<nodes, lists>>

\* value(f, fargs), seen with the dict of the caller as the call leaves it.
TracedValue ==
    /\ CanCall
    /\ \E f \in 1..Len(nodes), fargs \in Bindings :
          \E vs \in {values(Heap, f, fargs)} :
             \E r \in {values_subscript(Heap, f, vs)} :
                last' = [op |-> "value", f |-> f, fargs |-> fargs,
                         ok |-> r.ok, out |-> r.val,
                         fargs_after |-> vs.fargs]
    /\ pre' = Heap
    /\ UNCHANGED <<nodes, lists>>

\* numeric_gradient(f, fargs), seen with the dict of the caller as the call
\* leaves it.
TracedNumericGradient ==
    /\ CanCall
    /\ \E f \in 1..Len(nodes), fargs \in Bindings :
          LET r == numeric_gradient(Heap, f, fargs)
          IN  last' = [op |-> "numeric_gradient", f |-> f, fargs |-> fargs,
                       ok |-> r.ok, out |-> r.v, fargs_after |-> r.fargs]
    /\ pre' = Heap
    /\ UNCHANGED <<nodes, lists>>

\* symbolic_gradient(f)
CallSymbolicGradient ==
    /\ CanCall
    /\ \E f \in 1..Len(nodes) :
          LET r == symbolic_gradient(Heap, f)
          IN  /\ Install(r.heap)
              /\ last' = [op |-> "symbolic_gradient", f |-> f, fargs |-> EmptyDict,
                           ok |-> TRUE, out |-> r.v]
    /\ pre' = Heap

\* ddk = symbolic_gradient(d[k]) for the dict d that the last call of
\* symbolic_gradient returned and a Symbol k that d has an entry for.  `pre`
\* stays the heap from before the first call.
CallSymbolicGradientOfDerivative ==
    /\ last.op = "symbolic_gradient"
    /\ Len(nodes) <= MaxGradientHeap
    /\ \E k \in SymKeys \cap DOMAIN last.out :
          LET r == symbolic_gradient(Heap, last.out[k])
          IN  /\ Install(r.heap)
              /\ last' = [op |-> "second_gradient", f |-> last.f, fargs |-> EmptyDict,
                           ok |-> TRUE, out |-> r.v, wrt |-> k,
                           root |-> last.out[k]]
    /\ UNCHANGED pre

\* simplify(node)
CallSimplify ==
    /\ CanCall
    /\ \E f \in 1..Len(nodes) :
          LET r == simplify(Heap, f)
          IN  /\ Install(r.heap)
              /\ last' = [op |-> "simplify", f |-> f, fargs |-> EmptyDict,
                           ok |-> r.ok, out |-> r.node]
    /\ pre' = Heap

Next ==
    \/ NewSymbol
    \/ NewConstant
    \/ CallSymAdd
    \/ CallSymMul
    \/ CallValues
    \/ CallValue
    \/ CallNumericGradient
    \/ CallSymbolicGradient
    \/ CallSimplify
    \/ Return

Spec == Init /\ [][Next]_vars

\* A session that builds expressions over x and Constants and simplifies
\* them.  It starts with x = Symbol('x') alone.
InitSimplifier ==
    /\ nodes = <<Node("Symbol", "x", 0, 1)>>
    /\ lists = <<<<>>>>
    /\ last = NoCall
    /\ pre = NoHeap

\* Constant(value)
SimplifierNewConstant ==
    /\ Len(nodes) < MaxSimplifyNodes
    /\ \E val \in ConstVals : Install(Alloc(Heap, "Constant", "", val, <<>>))
    /\ Forget

SimplifierSymAdd ==
    /\ Len(nodes) < MaxSimplifyNodes
    /\ \E x \in 1..Len(nodes), y \in 1..Len(nodes) : Install(sym_add(Heap, x, y))
    /\ Forget

SimplifierSymMul ==
    /\ Len(nodes) < MaxSimplifyNodes
    /\ \E x \in 1..Len(nodes), y \in 1..Len(nodes) : Install(sym_mul(Heap, x, y))
    /\ Forget

\* simplify(node), seen with the passes of its loop body.
SimplifierSimplify ==
    /\ last.op = "none"
    /\ Len(nodes) <= MaxSimplifyNodes
    /\ \E f \in 1..Len(nodes) :
          LET r == simplify(Heap, f)
          IN  /\ Install(r.heap)
              /\ last' = [op |-> "simplify", f |-> f, fargs |-> EmptyDict,
                           ok |-> r.ok, out |-> r.node, log |-> r.log]
    /\ pre' = Heap

NextSimplifier ==
    \/ SimplifierNewConstant
    \/ SimplifierSymAdd
    \/ SimplifierSymMul
    \/ SimplifierSimplify
    \/ Return

SpecSimplifier == InitSimplifier /\ [][NextSimplifier]_vars

\* A session that builds expressions, evaluates and differentiates them, and
\* differentiates the derivatives again; the evaluator calls are seen with
\* what they do besides returning.
NextDerivatives ==
    \/ NewSymbol
    \/ NewConstant
    \/ CallSymAdd
    \/ CallSymMul
    \/ TracedValues
    \/ TracedValue
    \/ TracedNumericGradient
    \/ CallSymbolicGradient
    \/ CallSymbolicGradientOfDerivative
    \/ Return

SpecDerivatives == Init /\ [][NextDerivatives]_vars

\* ------------------------------------------------------------------ the traversal, pass by pass
\* A session in which the two gradient functions run one pass of their loop
\* at a time.  While a call is in progress `last` holds its frame: the queue
\* of bfs, the accumulator `out`, and `dequeued`, the nodes of the pairs bfs
\* has yielded so far.  The caller differentiates the expression it has
\* built last, with x and y bound, while the heap holds at most MaxNodes
\* nodes.
TotalBindings == [SymKeys -> BindVals]

\* numeric_gradient(f, fargs) up to the creation of bfs: vals is computed
\* and the queue is seeded with (f, 1).
StartNumericGradient ==
    /\ last.op = "none"
    /\ Len(nodes) <= MaxNodes
    /\ \E fargs \in TotalBindings :
          /\ values(Heap, Len(nodes), fargs).ok
          /\ last' = [op |-> "numeric_traversal", f |-> Len(nodes), fargs |-> fargs,
                      ok |-> TRUE, vals |-> values(Heap, Len(nodes), fargs).v,
                      q |-> bfs_start(Len(nodes), 1), out |-> EmptyDict,
                      dequeued |-> <<>>]
    /\ pre' = Heap
    /\ UNCHANGED <<nodes, lists>>

\* The frame after one pass, r being what the loop body returned.
NextFrame(r) ==
    [last EXCEPT !.q = r.q, !.out = r.derivatives,
                 !.dequeued = Append(@, Head(last.q)[1])]

\* The heap and the frame after one pass of symbolic_gradient.
InstallFrame(r) ==
    /\ Install(r.heap)
    /\ last' = NextFrame(r)

\* One pass of the loop of numeric_gradient: bfs pops the front of its queue.
StepNumericGradient ==
    /\ last.op = "numeric_traversal"
    /\ bfs_running(last.q)
    /\ last' = NextFrame(numeric_gradient_body(Heap, last.vals, Head(last.q),
                                               Tail(last.q), last.out))
    /\ UNCHANGED <<nodes, lists, pre>>

\* `while q` fails, bfs ends, StopIteration: return derivatives.
FinishNumericGradient ==
    /\ last.op = "numeric_traversal"
    /\ ~bfs_running(last.q)
    /\ last' = [last EXCEPT !.op = "numeric_gradient"]
    /\ UNCHANGED <<nodes, lists, pre>>

\* symbolic_gradient(f) up to the creation of bfs.
StartSymbolicGradient ==
    /\ last.op = "none"
    /\ Len(nodes) <= MaxNodes
    /\ Install(symbolic_gradient_start(Heap, Len(nodes)).heap)
    /\ last' = [op |-> "symbolic_traversal", f |-> Len(nodes), fargs |-> EmptyDict,
                ok |-> TRUE, q |-> symbolic_gradient_start(Heap, Len(nodes)).q,
                out |-> EmptyDict, dequeued |-> <<>>]
    /\ pre' = Heap

\* One pass of the loop of symbolic_gradient.
StepSymbolicGradient ==
    /\ last.op = "symbolic_traversal"
    /\ bfs_running(last.q)
    /\ \E r \in {symbolic_gradient_body(Heap, Head(last.q), Tail(last.q), last.out)} :
          InstallFrame(r)
    /\ UNCHANGED pre

\* `while q` fails, bfs ends, StopIteration: return derivatives.
FinishSymbolicGradient ==
    /\ last.op = "symbolic_traversal"
    /\ ~bfs_running(last.q)
    /\ last' = [last EXCEPT !.op = "symbolic_gradient"]
    /\ UNCHANGED <<nodes, lists, pre>>

\* The caller is done with the result of a finished call.
ReturnFromGradient ==
    /\ last.op \in {"numeric_gradient", "symbolic_gradient"}
    /\ Forget
    /\ UNCHANGED <<nodes, lists>>

\* A pass or the end of the loop of a call in progress.
Progress ==
    \/ StepNumericGradient
    \/ FinishNumericGradient
    \/ StepSymbolicGradient
    \/ FinishSymbolicGradient

NextTraversal ==
    \/ NewSymbol
    \/ NewConstant
    \/ CallSymAdd
    \/ CallSymMul
    \/ StartNumericGradient
    \/ StepNumericGradient
    \/ FinishNumericGradient
    \/ StartSymbolicGradient
    \/ StepSymbolicGradient
    \/ FinishSymbolicGradient
    \/ ReturnFromGradient

\* A call that has started keeps running: the loops have no suspension
\* point outside the generator protocol, which the caller drives at once.
SpecTraversal == Init /\ [][NextTraversal]_vars /\ WF_vars(Progress)

\* ------------------------------------------------------------------ the traversal in any order
\* q without its entry i
Without(q, i) == SubSeq(q, 1, i - 1) \o SubSeq(q, i + 1, Len(q))

\* One pass of the loop of numeric_gradient with a bfs that takes entry i of
\* its queue, q.pop(i), where the bfs of the notebook takes the front,
\* q.pop(0).  Here `dequeued` holds the node that was last taken from
\* behind the front, if any.
StepAnyOrder ==
    /\ last.op = "numeric_traversal"
    /\ bfs_running(last.q)
    /\ \E i \in 1..Len(last.q) :
          LET r == numeric_gradient_body(Heap, last.vals, last.q[i],
                                         Without(last.q, i), last.out)
          IN  last' = [last EXCEPT !.q = r.q, !.out = r.derivatives,
                                   !.dequeued = IF i = 1 THEN @ ELSE <<last.q[i][1]>>]
    /\ UNCHANGED <<nodes, lists, pre>>

NextAnyOrder ==
    \/ NewSymbol
    \/ NewConstant
    \/ CallSymAdd
    \/ CallSymMul
    \/ StartNumericGradient
    \/ StepAnyOrder
    \/ FinishNumericGradient
    \/ ReturnFromGradient

SpecAnyOrder == Init /\ [][NextAnyOrder]_vars

\* ------------------------------------------------------------------ reference notions
\* The mathematical notions the properties below are stated in.  None of
\* them is computed the way the program computes.

\* The nodes reachable from node f along children references.
RECURSIVE Reach(_, _)
Reach(H, f) ==
    {f} \cup UNION {Reach(H, Children(H, f)[i]) : i \in 1..Len(Children(H, f))}

\* A bindings map covers f when every Symbol reachable from f has an entry.
Covers(H, f, B) ==
    \A n \in Reach(H, f) : H.nodes[n].kind = "Symbol" => Key(H, n) \in DOMAIN B

SymbolFree(H, f) == \A n \in Reach(H, f) : H.nodes[n].kind # "Symbol"

\* Recursive reference semantics of an expression under covering bindings.
RECURSIVE Ref(_, _, _)
Ref(H, n, B) ==
    LET kind == H.nodes[n].kind
        ch   == Children(H, n)
    IN  CASE kind = "Symbol"   -> B[Key(H, n)]
          [] kind = "Constant" -> H.nodes[n].value
          [] kind = "Add"      -> Ref(H, ch[1], B) + Ref(H, ch[2], B)
          [] kind = "Mul"      -> Ref(H, ch[1], B) * Ref(H, ch[2], B)

\* The derivative of node m with respect to its i-th child.
EdgeGrad(H, m, i, B) ==
    IF H.nodes[m].kind = "Add" THEN 1 ELSE Ref(H, Children(H, m)[3 - i], B)

\* Sum, over all paths from m down to a node that maps see as key k, of the
\* product of the edge derivatives along the path.
RECURSIVE PathSum(_, _, _, _)
PathSum(H, m, k, B) ==
    LET ch == Children(H, m)
        RECURSIVE below(_)
        below(i) == IF i > Len(ch) THEN 0
                    ELSE EdgeGrad(H, m, i, B) * PathSum(H, ch[i], k, B) + below(i + 1)
    IN  (IF Key(H, m) = k THEN 1 ELSE 0) + below(1)

\* The partial derivative of node n with respect to the Symbol named by
\* key k, by the sum and product rules.
RECURSIVE Partial(_, _, _, _)
Partial(H, n, k, B) ==
    LET kind == H.nodes[n].kind
        ch   == Children(H, n)
    IN  CASE kind = "Symbol"   -> IF Key(H, n) = k THEN 1 ELSE 0
          [] kind = "Constant" -> 0
          [] kind = "Add"      -> Partial(H, ch[1], k, B) + Partial(H, ch[2], k, B)
          [] kind = "Mul"      -> Partial(H, ch[1], k, B) * Ref(H, ch[2], B)
                                  + Ref(H, ch[1], B) * Partial(H, ch[2], k, B)

\* The second-order partial derivative of node n, first with respect to k1
\* and then with respect to k2.
RECURSIVE Partial2(_, _, _, _, _)
Partial2(H, n, k1, k2, B) ==
    LET kind == H.nodes[n].kind
        ch   == Children(H, n)
    IN  CASE kind = "Symbol"   -> 0
          [] kind = "Constant" -> 0
          [] kind = "Add"      -> Partial2(H, ch[1], k1, k2, B)
                                  + Partial2(H, ch[2], k1, k2, B)
          [] kind = "Mul"      -> Partial2(H, ch[1], k1, k2, B) * Ref(H, ch[2], B)
                                  + Partial(H, ch[1], k1, B) * Partial(H, ch[2], k2, B)
                                  + Partial(H, ch[1], k2, B) * Partial(H, ch[2], k1, B)
                                  + Ref(H, ch[1], B) * Partial2(H, ch[2], k1, k2, B)

KindOf(H, n) == H.nodes[n].kind

\* Structural equality of two expressions: same kinds, names, values and
\* child order.
RECURSIVE StructEq(_, _, _, _)
StructEq(H1, n1, H2, n2) ==
    LET c1 == Children(H1, n1)
        c2 == Children(H2, n2)
    IN  /\ H1.nodes[n1].kind = H2.nodes[n2].kind
        /\ H1.nodes[n1].name = H2.nodes[n2].name
        /\ H1.nodes[n1].value = H2.nodes[n2].value
        /\ Len(c1) = Len(c2)
        /\ \A i \in 1..Len(c1) : StructEq(H1, c1[i], H2, c2[i])

XY23 == [k \in SymKeys |-> IF k = <<"x", 0>> THEN 2 ELSE 3]

\* ------------------------------------------------------------------ properties
\* C1: for bindings that cover the Symbols of f, numeric_gradient(f, fargs)
\* returns a map with an entry for every node reachable from f, and the
\* entry of a node is the sum over all paths from f to it of the product of
\* the edge derivatives (Add edge 1, Mul edge the value of the sibling); the
\* entry of f itself counts the empty path, 1.  Nodes are told apart as
\* the maps of the program tell them apart (Symbols by name).
C1_GradientIsPathSum ==
    (last.op = "numeric_gradient" /\ Covers(pre, last.f, last.fargs)) =>
        /\ last.ok
        /\ DOMAIN last.out = {Key(pre, n) : n \in Reach(pre, last.f)}
        /\ \A k \in DOMAIN last.out :
              last.out[k] = PathSum(pre, last.f, k, last.fargs)

\* f = (x+y)*x at x=2, y=3: the gradient is 7 for x and 2 for y.
C1_Witness ==
    /\ last.op = "numeric_gradient"
    /\ last.ok
    /\ last.fargs = XY23
    /\ KindOf(pre, last.f) = "Mul"
    /\ KindOf(pre, Children(pre, last.f)[1]) = "Add"
    /\ last.out[<<"x", 0>>] = 7
    /\ last.out[<<"y", 0>>] = 2

\* C9: values, value and numeric_gradient fail with KeyError exactly when
\* some Symbol reachable from the root has no entry in the bindings; a
\* failed call returns nothing.
C9_MissingBindingIsFatal ==
    (last.op \in {"values", "value", "numeric_gradient"}) =>
        /\ last.ok <=> Covers(pre, last.f, last.fargs)
        /\ ~last.ok => IF last.op = "value" THEN last.out = 0
                                              ELSE last.out = EmptyDict

\* numeric_gradient of an expression over x and y with only x bound fails.
C9_Witness ==
    /\ last.op = "numeric_gradient"
    /\ ~last.ok
    /\ DOMAIN last.fargs = {<<"x", 0>>}
    /\ KindOf(pre, last.f) \in {"Add", "Mul"}
    /\ \E n \in Reach(pre, last.f) : Key(pre, n) = <<"x", 0>>
    /\ \E n \in Reach(pre, last.f) : Key(pre, n) = <<"y", 0>>

\* C10: for bindings that cover the Symbols of f, values(f, fargs) maps
\* every node reachable from f to its value under the recursive reference
\* semantics, and value(f, fargs) is the value of f.
C10_EvaluatorCorrect ==
    /\ (last.op = "values" /\ Covers(pre, last.f, last.fargs)) =>
          /\ last.ok
          /\ \A n \in Reach(pre, last.f) :
                /\ Key(pre, n) \in DOMAIN last.out
                /\ last.out[Key(pre, n)] = Ref(pre, n, last.fargs)
    /\ (last.op = "value" /\ Covers(pre, last.f, last.fargs)) =>
          /\ last.ok
          /\ last.out = Ref(pre, last.f, last.fargs)

\* values((x+y)*x, {x: 2, y: 3}) has 10 for the root and 5 for x+y.
C10_Witness ==
    /\ last.op = "values"
    /\ last.ok
    /\ last.fargs = XY23
    /\ KindOf(pre, last.f) = "Mul"
    /\ KindOf(pre, Children(pre, last.f)[1]) = "Add"
    /\ last.out[Key(pre, last.f)] = 10
    /\ last.out[Key(pre, Children(pre, last.f)[1])] = 5

\* C2: for every bindings map that covers the Symbols of f and every
\* Symbol s of f, the value of symbolic_gradient(f)[s] under the bindings
\* equals numeric_gradient(f, bindings)[s].
C2_SymbolicAgreesWithNumeric ==
    (last.op = "symbolic_gradient") =>
        \A B \in Bindings :
            Covers(pre, last.f, B) =>
                LET numeric == numeric_gradient(pre, last.f, B)
                IN  \A s \in Reach(pre, last.f) :
                        KindOf(pre, s) = "Symbol" =>
                            /\ Key(pre, s) \in DOMAIN last.out
                            /\ value(Heap, last.out[Key(pre, s)], B) =
                                 [ok |-> TRUE, val |-> numeric.v[Key(pre, s)]]

\* symbolic_gradient((x+y)*x): d[x] evaluates to 7 and d[y] to 2 at x=2, y=3.
C2_Witness ==
    /\ last.op = "symbolic_gradient"
    /\ KindOf(pre, last.f) = "Mul"
    /\ KindOf(pre, Children(pre, last.f)[1]) = "Add"
    /\ SymKeys \subseteq DOMAIN last.out
    /\ value(Heap, last.out[<<"x", 0>>], XY23).val = 7
    /\ value(Heap, last.out[<<"y", 0>>], XY23).val = 2

\* C3: simplify does not change the graph it is given: after the call every
\* node that existed before has the children it had, the same nodes in the
\* same positions.
C3_SimplifyLeavesInputAlone ==
    (last.op = "simplify") =>
        \A n \in 1..Len(pre.nodes) :
            /\ nodes[n] = pre.nodes[n]
            /\ Children(Heap, n) = Children(pre, n)

\* C4: when simplify(e) returns, its result has, under every bindings map
\* that covers the Symbols of e, the value e had before the call.
C4_SimplifyPreservesValue ==
    (last.op = "simplify" /\ last.ok) =>
        \A B \in Bindings :
            Covers(pre, last.f, B) =>
                value(Heap, last.out, B) = value(pre, last.f, B)

\* simplify(x*y) has returned a new Mul node whose value at x=2, y=3 is 6.
C4_Witness ==
    /\ last.op = "simplify"
    /\ last.ok
    /\ KindOf(pre, last.f) = "Mul"
    /\ KindOf(Heap, last.out) = "Mul"
    /\ last.out # last.f
    /\ value(pre, last.f, XY23) = [ok |-> TRUE, val |-> 6]
    /\ value(Heap, last.out, XY23) = [ok |-> TRUE, val |-> 6]

\* C5: simplify never raises, and simplify of a Symbol returns the Symbol.
C5_SimplifyNeverFails ==
    (last.op = "simplify") =>
        /\ last.ok
        /\ KindOf(pre, last.f) = "Symbol" => last.out = last.f

\* C6: simplify(simplify(e)) is structurally equal to simplify(e).
C6_SimplifyIdempotent ==
    (last.op = "simplify" /\ last.ok) =>
        LET again == simplify(Heap, last.out)
        IN  /\ again.ok
            /\ StructEq(again.heap, again.node, Heap, last.out)

\* C7: simplify of an expression with no Symbol in it returns one Constant
\* node that holds the value of the expression.
C7_ConstantFolding ==
    (last.op = "simplify" /\ SymbolFree(pre, last.f)) =>
        /\ last.ok
        /\ KindOf(Heap, last.out) = "Constant"
        /\ Children(Heap, last.out) = <<>>
        /\ [ok |-> TRUE, val |-> nodes[last.out].value] = value(pre, last.f, EmptyDict)

\* simplify(1+1) has returned Constant 2.
C7_Witness ==
    /\ last.op = "simplify"
    /\ last.ok
    /\ SymbolFree(pre, last.f)
    /\ KindOf(pre, last.f) = "Add"
    /\ KindOf(Heap, last.out) = "Constant"
    /\ nodes[last.out].value = 2

\* f is add(x, constant(0)), add(constant(0), x), mul(x, constant(1)) or
\* mul(constant(1), x), with x the Symbol at position i.
IdentityShape(H, f, i) ==
    LET ch == Children(H, f)
    IN  /\ KindOf(H, f) \in {"Add", "Mul"}
        /\ KindOf(H, ch[i]) = "Symbol"
        /\ is_const(H, ch[3 - i], IF KindOf(H, f) = "Add" THEN 0 ELSE 1)

\* C8: simplify of x+0, 0+x, x*1 and 1*x, x a Symbol, returns the node x.
C8_IdentityLaws ==
    (last.op = "simplify") =>
        \A i \in {1, 2} :
            (KindOf(pre, last.f) \in {"Add", "Mul"} /\ IdentityShape(pre, last.f, i)) =>
                /\ last.ok
                /\ last.out = Children(pre, last.f)[i]

\* simplify(mul(constant(1), x)) has returned x.
C8_Witness ==
    /\ last.op = "simplify"
    /\ last.ok
    /\ KindOf(pre, last.f) = "Mul"
    /\ IdentityShape(pre, last.f, 2)
    /\ last.out = Children(pre, last.f)[2]

\* The value of dd[k] under bindings B, dd being the dict that the second
\* call of symbolic_gradient returned.
EntryValue(k, B) ==
    LET e == derivative_entry(Heap, last.out, k)
    IN  value(e.heap, e.node, B)

\* C11: symbolic_gradient applied to the entry d[k1] of symbolic_gradient(f)
\* returns a dict dd such that, for every Symbol name k2 and every bindings
\* map that covers f and k2, dd[k2] evaluates to the second-order partial
\* derivative of f with respect to k1 and k2; an entry that the traversal
\* never reached reads as the default Constant(0).
C11_SecondOrderDerivative ==
    (last.op = "second_gradient") =>
        \A B \in Bindings : \A k2 \in SymKeys :
            (Covers(pre, last.f, B) /\ k2 \in DOMAIN B) =>
                EntryValue(k2, B) =
                    [ok |-> TRUE, val |-> Partial2(pre, last.f, last.wrt, k2, B)]

\* f = (x+y)*x, d = symbolic_gradient(f), ddy = symbolic_gradient(d[y]):
\* at x=2, y=3 ddy[x] evaluates to 1 and ddy[y], which the traversal never
\* reached, to 0.
C11_Witness ==
    /\ last.op = "second_gradient"
    /\ last.wrt = <<"y", 0>>
    /\ KindOf(pre, last.f) = "Mul"
    /\ KindOf(pre, Children(pre, last.f)[1]) = "Add"
    /\ Key(pre, Children(pre, last.f)[2]) = <<"x", 0>>
    /\ <<"y", 0>> \notin DOMAIN last.out
    /\ EntryValue(<<"x", 0>>, XY23).val = 1
    /\ EntryValue(<<"y", 0>>, XY23).val = 0

\* Two node objects that a dict is to hold under one entry: the same
\* object, or two Symbols of the same name.
SameEntry(H, n1, n2) ==
    \/ n1 = n2
    \/ /\ H.nodes[n1].kind = "Symbol"
       /\ H.nodes[n2].kind = "Symbol"
       /\ H.nodes[n1].name = H.nodes[n2].name

\* The number of entries a dict is to hold for the nodes reachable from f.
NumEntries(H, f) ==
    Cardinality({{m \in Reach(H, f) : SameEntry(H, n, m)} : n \in Reach(H, f)})

\* Sum, over all paths from m down to the node object n, of the product of
\* the edge derivatives along the path.
RECURSIVE PathSumTo(_, _, _, _)
PathSumTo(H, m, n, B) ==
    LET ch == Children(H, m)
        RECURSIVE below(_)
        below(i) == IF i > Len(ch) THEN 0
                    ELSE EdgeGrad(H, m, i, B) * PathSumTo(H, ch[i], n, B) + below(i + 1)
    IN  (IF m = n THEN 1 ELSE 0) + below(1)

\* The sum of PathSumTo over the node objects of S.
RECURSIVE SumPathsTo(_, _, _, _)
SumPathsTo(H, f, S, B) ==
    IF S = {} THEN 0
    ELSE LET n == CHOOSE m \in S : TRUE
         IN  PathSumTo(H, f, n, B) + SumPathsTo(H, f, S \ {n}, B)

\* The names of the Symbols reachable from f.
SymbolNames(H, f) ==
    {H.nodes[n].name : n \in {m \in Reach(H, f) : H.nodes[m].kind = "Symbol"}}

\* C12: in the dict that values returns and in the accumulators of
\* numeric_gradient and symbolic_gradient, two node objects of the graph
\* share an entry exactly when they are Symbols of the same name: the dict
\* holds one entry per Symbol name and one per Constant or operator object.
\* A binding given under a name is the value of every Symbol of that name,
\* and the gradient entry of a name is the sum of the contributions that
\* reach any Symbol of that name, while the entry of a Constant or operator
\* object holds the contributions that reach that object alone.
C12_SymbolsShareEntries ==
    /\ (last.op = "values" /\ last.ok) =>
          /\ Cardinality(DOMAIN last.out) =
                NumEntries(pre, last.f)
                + Cardinality({k \in DOMAIN last.fargs :
                                  k[1] \notin SymbolNames(pre, last.f)})
          /\ \A n \in Reach(pre, last.f) :
                KindOf(pre, n) = "Symbol" =>
                    last.out[Key(pre, n)] = last.fargs[<<pre.nodes[n].name, 0>>]
    /\ (last.op = "numeric_gradient" /\ last.ok) =>
          /\ Cardinality(DOMAIN last.out) = NumEntries(pre, last.f)
          /\ \A n \in Reach(pre, last.f) :
                last.out[Key(pre, n)] =
                    SumPathsTo(pre, last.f,
                               {m \in Reach(pre, last.f) : SameEntry(pre, n, m)},
                               last.fargs)
    /\ (last.op = "symbolic_gradient") =>
          Cardinality(DOMAIN last.out) = NumEntries(pre, last.f)
    /\ (last.op = "second_gradient") =>
          Cardinality(DOMAIN last.out) = NumEntries(Heap, last.root)

\* numeric_gradient(x1 * x2, {x: 2}) with x1 and x2 two Symbol objects named
\* x: one entry for x, which holds 2 + 2, and one for the Mul node.
C12_Witness ==
    /\ last.op = "numeric_gradient"
    /\ last.ok
    /\ KindOf(pre, last.f) = "Mul"
    /\ Children(pre, last.f)[1] # Children(pre, last.f)[2]
    /\ \A i \in {1, 2} : /\ KindOf(pre, Children(pre, last.f)[i]) = "Symbol"
                         /\ pre.nodes[Children(pre, last.f)[i]].name = "x"
    /\ DOMAIN last.fargs = {<<"x", 0>>}
    /\ last.fargs[<<"x", 0>>] = 2
    /\ Cardinality(DOMAIN last.out) = 2
    /\ last.out[<<"x", 0>>] = 4

\* The accumulator of symbolic_gradient(d[x]), d = symbolic_gradient((x+y)*x):
\* the graph of d[x] holds several Constant(1) objects and several Mul
\* objects, and each has an entry of its own.
C12_WitnessSeparateConstants ==
    /\ last.op = "second_gradient"
    /\ \E c1 \in Reach(Heap, last.root), c2 \in Reach(Heap, last.root) :
          /\ c1 # c2
          /\ is_const(Heap, c1, 1)
          /\ is_const(Heap, c2, 1)
          /\ Key(Heap, c1) \in DOMAIN last.out
          /\ Key(Heap, c2) \in DOMAIN last.out
          /\ last.out[Key(Heap, c1)] # last.out[Key(Heap, c2)]

\* The nodes of the graph of f that have c as a child.
Parents(H, f, c) ==
    {p \in Reach(H, f) : \E j \in 1..Len(Children(H, p)) : Children(H, p)[j] = c}

\* The passes of simplify's loop body, by position in the log, that were
\* made for node n.
VisitsOf(n) == {i \in 1..Len(last.log) : last.log[i].n = n}

\* C13: when a node that is not a Symbol is a child of several parents in
\* the graph given to simplify, the loop body runs for it once, and the
\* copies made for its parents all hold one and the same node in its place.
C13_SharedChildSimplifiedOnce ==
    (last.op = "simplify" /\ last.ok) =>
        \A c \in Reach(pre, last.f) :
            (KindOf(pre, c) # "Symbol" /\ Cardinality(Parents(pre, last.f, c)) > 1) =>
                /\ Cardinality(VisitsOf(c)) = 1
                /\ \E s \in 1..Len(nodes) :
                      \A p \in Parents(pre, last.f, c) : \A i \in VisitsOf(p) :
                          \A j \in 1..Len(Children(pre, p)) :
                              Children(pre, p)[j] = c => last.log[i].kids[j] = s

\* The node that rule k of a pass v of the loop body was applied to.
RuleInput(v, k) == IF k = 1 THEN v.nc ELSE v.after[k - 1]

\* The rules that returned another node than they were given in pass v.
Replacing(v) == {k \in 1..Len(v.after) : v.after[k] # RuleInput(v, k)}

\* C14 as claimed: in one pass of simplify's loop body at most one rule
\* returns a replacement; after a rule has replaced the node no later rule
\* replaces it again.
C14_AtMostOneRulePerVisit ==
    (last.op = "simplify") =>
        \A i \in 1..Len(last.log) : Cardinality(Replacing(last.log[i])) <= 1

\* Some child of the copy made in pass v is the Constant val.
HasConstChild(v, val) == \E j \in 1..Len(v.kids) : is_const(Heap, v.kids[j], val)

\* C14 amended: in one pass every rule is applied once, in registration
\* order (mul identity, add identity, constant folding), each to the node the
\* rule before it returned.  The two identity rules never both replace the
\* node, and constant folding replaces what they return only when that is a
\* Constant, by a new Constant of the same value.
C14_RulesChainInOrder ==
    (last.op = "simplify") =>
        \A i \in 1..Len(last.log) :
            LET v == last.log[i]
            IN  /\ Len(v.after) = 3
                /\ 1 \in Replacing(v) =>
                      /\ KindOf(Heap, v.nc) = "Mul"
                      /\ HasConstChild(v, 1)
                      /\ \E j \in 1..Len(v.kids) : v.after[1] = v.kids[j]
                /\ 2 \in Replacing(v) =>
                      /\ 1 \notin Replacing(v)
                      /\ KindOf(Heap, v.nc) = "Add"
                      /\ HasConstChild(v, 0)
                      /\ \E j \in 1..Len(v.kids) : v.after[2] = v.kids[j]
                /\ 3 \in Replacing(v) =>
                      /\ KindOf(Heap, v.after[3]) = "Constant"
                      /\ v.after[3] > v.nc
                      /\ SymbolFree(Heap, v.after[2])
                      /\ Replacing(v) # {3} =>
                            /\ KindOf(Heap, v.after[2]) = "Constant"
                            /\ nodes[v.after[3]].value = nodes[v.after[2]].value

\* simplify(Constant(1) * c), c a Constant: mul identity returns c, and
\* constant folding replaces c by a new Constant.
C14_Witness ==
    /\ last.op = "simplify"
    /\ last.ok
    /\ \E i \in 1..Len(last.log) :
          /\ last.log[i].n = last.f
          /\ Replacing(last.log[i]) = {1, 3}
          /\ last.out = last.log[i].after[3]
          /\ last.log[i].kids[1] # last.log[i].kids[2]

\* C19: in the graph that simplify returns no Mul node has a child that is
\* the Constant 1, no Add node has a child that is the Constant 0, and every
\* Add and Mul node has a Symbol below it.
C19_NormalForm ==
    (last.op = "simplify" /\ last.ok) =>
        \A n \in Reach(Heap, last.out) :
            LET ch == Children(Heap, n)
            IN  /\ KindOf(Heap, n) = "Mul" =>
                      \A j \in 1..Len(ch) : ~is_const(Heap, ch[j], 1)
                /\ KindOf(Heap, n) = "Add" =>
                      \A j \in 1..Len(ch) : ~is_const(Heap, ch[j], 0)
                /\ KindOf(Heap, n) \in {"Add", "Mul"} => ~SymbolFree(Heap, n)

\* simplify((1+1) * x) has returned 2 * x: a new Mul node over a folded
\* Constant and x.
C19_Witness ==
    /\ last.op = "simplify"
    /\ last.ok
    /\ KindOf(pre, last.f) = "Mul"
    /\ KindOf(pre, Children(pre, last.f)[1]) = "Add"
    /\ SymbolFree(pre, Children(pre, last.f)[1])
    /\ KindOf(Heap, last.out) = "Mul"
    /\ is_const(Heap, Children(Heap, last.out)[1], 2)
    /\ KindOf(Heap, Children(Heap, last.out)[2]) = "Symbol"

\* The number of paths from f down to the node object n.
RECURSIVE NumPaths(_, _, _)
NumPaths(H, f, n) ==
    LET ch == Children(H, f)
        RECURSIVE below(_)
        below(i) == IF i > Len(ch) THEN 0 ELSE NumPaths(H, ch[i], n) + below(i + 1)
    IN  (IF f = n THEN 1 ELSE 0) + below(1)

\* The number of edges into n in the graph of f: one per parent and child
\* position; the root counts one.
NumEdgesInto(H, f, n) ==
    Cardinality({pj \in Reach(H, f) \X {1, 2} :
                    /\ pj[2] <= Len(Children(H, pj[1]))
                    /\ Children(H, pj[1])[pj[2]] = n})
    + (IF n = f THEN 1 ELSE 0)

\* How often node n was taken from the queue in the call `last` describes.
TimesDequeued(n) == Cardinality({i \in 1..Len(last.dequeued) : last.dequeued[i] = n})

\* A gradient call that has run pass by pass and has returned.
TraversalDone == last.op \in {"numeric_gradient", "symbolic_gradient"}

\* C15 as claimed: over a whole run of the gradient traversal every node of
\* the graph is taken from the queue as often as it has incoming edges, the
\* root once.
C15_OneItemPerEdge ==
    TraversalDone =>
        \A n \in Reach(pre, last.f) :
            TimesDequeued(n) = NumEdgesInto(pre, last.f, n)

\* C15 amended: over a whole run every node of the graph is taken from the
\* queue once per path from the root to it, and nothing else is taken.
C15_OneItemPerPath ==
    TraversalDone =>
        /\ \A n \in Reach(pre, last.f) : TimesDequeued(n) = NumPaths(pre, last.f, n)
        /\ \A i \in 1..Len(last.dequeued) : last.dequeued[i] \in Reach(pre, last.f)

\* numeric_gradient of a*a with a = x*x: x has two incoming edges and four
\* paths, and was taken from the queue four times.
C15_Witness ==
    /\ last.op = "numeric_gradient"
    /\ \E n \in Reach(pre, last.f) :
          /\ NumEdgesInto(pre, last.f, n) = 2
          /\ NumPaths(pre, last.f, n) = 4
          /\ TimesDequeued(n) = 4

\* C17: when the pending work items are taken from the queue in any order,
\* the accumulator that numeric_gradient returns once the queue is empty is
\* the one it returns when they are taken from the front.
C17_OrderIndependent ==
    (last.op = "numeric_gradient") =>
        last.out = numeric_gradient(pre, last.f, last.fargs).v

\* numeric_gradient((x+y)*x, {x: 2, y: 3}) in which a pair was taken from
\* behind the front of the queue: 7 for x, 2 for y.
C17_Witness ==
    /\ last.op = "numeric_gradient"
    /\ last.fargs = XY23
    /\ KindOf(pre, last.f) = "Mul"
    /\ KindOf(pre, Children(pre, last.f)[1]) = "Add"
    /\ last.dequeued # <<>>
    /\ last.out[<<"x", 0>>] = 7
    /\ last.out[<<"y", 0>>] = 2

\* C18: a gradient traversal that has started, numeric or symbolic, returns:
\* it reaches the state in which the queue is empty, no pair is left in it,
\* and the accumulator has been returned.
C18_TraversalTerminates ==
    InCall ~> (TraversalDone /\ last.q = <<>>)

\* symbolic_gradient of a*a with a = x*x has returned after seven passes,
\* with entries for f, a and x and an empty queue.
C18_Witness ==
    /\ last.op = "symbolic_gradient"
    /\ last.q = <<>>
    /\ Len(last.dequeued) = 7
    /\ Cardinality(DOMAIN last.out) = 3

\* How often node n occurs in the sequence po.
Occurrences(po, n) == Cardinality({i \in 1..Len(po) : po[i] = n})

\* C16 as claimed: the traversal of values visits every node reachable from
\* the root exactly once, however many parents it has.
C16_EachNodeVisitedOnce ==
    (last.op = "values" /\ last.ok) =>
        \A n \in Reach(pre, last.f) : Occurrences(last.visited, n) = 1

\* C16 amended: postorder yields a node once per path from the root to it,
\* and values calls compute_value exactly once for every Constant and
\* operator node reachable from the root and never for a Symbol that the
\* bindings hold: the value map keeps a node from being computed again, not
\* from being visited again.
C16_EachNodeComputedOnce ==
    (last.op = "values" /\ last.ok) =>
        \A n \in Reach(pre, last.f) :
            /\ Occurrences(last.visited, n) = NumPaths(pre, last.f, n)
            /\ Occurrences(last.computed, n) =
                  IF KindOf(pre, n) = "Symbol" THEN 0 ELSE 1

\* values(a*a, {x: 2}) with a = x*x: postorder yields a twice and x four
\* times, and compute_value has run once for a and once for a*a.
C16_Witness ==
    /\ last.op = "values"
    /\ last.ok
    /\ \E a \in Reach(pre, last.f) :
          /\ KindOf(pre, a) = "Mul"
          /\ Occurrences(last.visited, a) = 2
          /\ Occurrences(last.computed, a) = 1
    /\ Len(last.visited) = 7
    /\ Len(last.computed) = 2

====
